---- MODULE Spec2Model ----
(***************************************************************************)
(* Model of the blog application's two Redux slices (blogSlice and         *)
(* commentsSlice), their async thunks, and the hosted backend (row tables  *)
(* "posts" and "comments", bucket "post-files") the thunks talk to.        *)
(*                                                                         *)
(* A thunk is a task that runs from one await to the next.  The backend    *)
(* serves one request of one task per step; the lifecycle action           *)
(* (fulfilled / rejected) reaches the store in a later step, so backend    *)
(* order and completion order are independent.                             *)
(*                                                                         *)
(* Encoding of JavaScript values: a string is a tuple of atoms, null is    *)
(* the empty tuple, undefined is the tuple <<"undefined">>.                *)
(***************************************************************************)
EXTENDS Integers, Sequences, FiniteSets, TLC

\* ---------------------------------------------------------------- bounds
MaxOps == 2          \* thunks dispatched in one behaviour of Spec
MaxMutations == 1    \* of which create / update / delete thunks
MaxDeepOps == 3      \* thunks dispatched in one behaviour of SpecDeep
MaxInFlight == 2     \* thunks in flight at the same time

\* ------------------------------------------------------------ JS values
Null == <<>>
Undefined == <<"undefined">>
EmptyStr == <<"">>
Str(s) == <<s>>

\* JavaScript truthiness of a (string | null | undefined) value
Truthy(v) == v # Null /\ v # Undefined /\ v # EmptyStr

\* The a ?? null of updateBlog / updateComment
Coalesce(v) == IF v = Undefined THEN Null ELSE v

\* Backend-assigned identifiers: the n-th identifier is n ones, so that an
\* identifier is a proper prefix of every later one.
IdOf(n) == [i \in 1..n |-> 1]
NoSuchId == <<0>>

\* ------------------------------------------------------- input domains
NoUser == Null
Alice == [id |-> Str("u1"), email |-> Str("u1@x")]
Anon == [id |-> EmptyStr, email |-> Str("anon@x")]   \* a user object whose id is ""
Users == {NoUser, Anon, Alice}

NoFile == Null
Png == [name |-> "f.png", ext |-> "png"]
Files == {NoFile, Png}

Titles == {Str("T")}
Contents == {Str("A"), Str("B")}
PostIds == {IdOf(1), IdOf(2)}

\* messages
AuthMsgCreateBlog == Str("Not authenticated or user has no ID")
AuthMsg == Str("Not authenticated")
UploadErr == Str("upload failed")
RowErr == Str("row operation failed")
NoRowErr == Str("no rows returned")
ThrownErr == Str("network failure")

\* --------------------------------------------------------------- helpers
Range(s) == {s[i] : i \in 1..Len(s)}

RECURSIVE SelectSeq2(_, _)
\* Array.prototype.filter with the predicate given as the set of kept values
SelectSeq2(s, keep) ==
    IF s = <<>> THEN <<>>
    ELSE IF Head(s) \in keep THEN <<Head(s)>> \o SelectSeq2(Tail(s), keep)
         ELSE SelectSeq2(Tail(s), keep)

\* Array.prototype.findIndex on the id field (0 stands for -1)
FindIndex(s, id) ==
    IF \E i \in 1..Len(s) : s[i].id = id
    THEN CHOOSE i \in 1..Len(s) : s[i].id = id /\ \A j \in 1..(i-1) : s[j].id # id
    ELSE 0

RECURSIVE OrderDesc(_)
\* .order("created_at", { ascending: false }) over a set of rows
OrderDesc(S) ==
    IF S = {} THEN <<>>
    ELSE LET m == CHOOSE r \in S : \A q \in S : q.created_at <= r.created_at
         IN <<m>> \o OrderDesc(S \ {m})

\* Record<string, number> lookup with the || 0 default
CountOr0(counts, p) == IF p \in DOMAIN counts THEN counts[p] ELSE 0

Max(a, b) == IF a >= b THEN a ELSE b

\* ------------------------------------------------------------- blogSlice
BlogInitialState == [blogs |-> <<>>, status |-> "idle", error |-> Null]

\* .addCase(fetchBlogs.pending, ...)
fetchBlogsPending(state, action) ==
    [state EXCEPT !.status = "loading", !.error = Null]

\* .addCase(fetchBlogs.fulfilled, ...)
fetchBlogsFulfilled(state, action) ==
    [state EXCEPT !.status = "succeeded",
                  !.blogs = IF action.payload = Null THEN <<>> ELSE action.payload]

\* variant: a rejected fetch that also empties the list
fetchBlogsRejected_Clears(state, action) ==
    [state EXCEPT !.status = "failed", !.error = action.payload, !.blogs = <<>>]

\* .addCase(fetchBlogs.rejected, ...)
fetchBlogsRejected(state, action) ==
    [state EXCEPT !.status = "failed", !.error = action.payload]

\* variant: push instead of unshift
createBlogFulfilled_Appends(state, action) ==
    IF action.payload # Null
    THEN [state EXCEPT !.blogs = @ \o <<action.payload>>]
    ELSE state

\* .addCase(createBlog.fulfilled, ...): unshift
createBlogFulfilled(state, action) ==
    IF action.payload # Null
    THEN [state EXCEPT !.blogs = <<action.payload>> \o @]
    ELSE state

\* variant: an update that adds the row when its id is not in the list
updateBlogFulfilled_Upserts(state, action) ==
    IF action.payload # Null
    THEN LET idx == FindIndex(state.blogs, action.payload.id)
         IN IF idx # 0
            THEN [state EXCEPT !.blogs[idx] = action.payload]
            ELSE [state EXCEPT !.blogs = <<action.payload>> \o @]
    ELSE state

\* variant: an update that keeps an entry a newer row already replaced
updateBlogFulfilled_FirstWins(state, action) ==
    IF action.payload # Null
    THEN LET idx == FindIndex(state.blogs, action.payload.id)
         IN IF idx # 0 /\ state.blogs[idx].content = Str("A")
            THEN [state EXCEPT !.blogs[idx] = action.payload]
            ELSE state
    ELSE state

\* .addCase(updateBlog.fulfilled, ...): replace at findIndex
updateBlogFulfilled(state, action) ==
    IF action.payload # Null
    THEN LET idx == FindIndex(state.blogs, action.payload.id)
         IN IF idx # 0
            THEN [state EXCEPT !.blogs[idx] = action.payload]
            ELSE state
    ELSE state

\* .addCase(deleteBlog.fulfilled, ...): filter by id
deleteBlogFulfilled(state, action) ==
    [state EXCEPT !.blogs =
        SelectSeq2(@, {b \in Range(@) : b.id # action.payload})]

\* blogSlice.extraReducers: the reducer of state.blog
blogReducer(state, action) ==
    CASE action.type = "blogs/fetchBlogs/pending" -> fetchBlogsPending(state, action)
      [] action.type = "blogs/fetchBlogs/fulfilled" -> fetchBlogsFulfilled(state, action)
      [] action.type = "blogs/fetchBlogs/rejected" -> fetchBlogsRejected(state, action)
      [] action.type = "blogs/createBlog/fulfilled" -> createBlogFulfilled(state, action)
      [] action.type = "blogs/updateBlog/fulfilled" -> updateBlogFulfilled(state, action)
      [] action.type = "blogs/deleteBlog/fulfilled" -> deleteBlogFulfilled(state, action)
      [] OTHER -> state

\* --------------------------------------------------------- commentsSlice
CommentInitialState ==
    [comments |-> <<>>, commentCounts |-> <<>>, status |-> "idle", error |-> Null]

\* variant: a clear that also forgets the counts
clearComments_AlsoCounts(state) ==
    [state EXCEPT !.comments = <<>>, !.status = "idle", !.error = Null,
                  !.commentCounts = <<>>]

\* commentSlice.reducers.clearComments
clearComments(state) ==
    [state EXCEPT !.comments = <<>>, !.status = "idle", !.error = Null]

\* state.commentCounts[postId] = n
SetCount(counts, p, n) ==
    [q \in DOMAIN counts \cup {p} |-> IF q = p THEN n ELSE counts[q]]

\* .addCase(fetchCommentsByPost.pending, ...)
fetchCommentsByPostPending(state, action) ==
    [state EXCEPT !.status = "loading", !.error = Null]

\* .addCase(fetchCommentsByPost.fulfilled, ...)
fetchCommentsByPostFulfilled(state, action) ==
    [state EXCEPT !.status = "succeeded",
                  !.comments = IF action.payload = Null THEN <<>> ELSE action.payload]

\* variant: a rejected fetch that also empties the list
fetchCommentsByPostRejected_Clears(state, action) ==
    [state EXCEPT !.status = "failed", !.error = action.payload, !.comments = <<>>]

\* .addCase(fetchCommentsByPost.rejected, ...)
fetchCommentsByPostRejected(state, action) ==
    [state EXCEPT !.status = "failed", !.error = action.payload]

\* variant: the returned counts are merged into the ones held
fetchCommentCountsFulfilled_Merges(state, action) ==
    [state EXCEPT !.commentCounts = action.payload @@ @]

\* .addCase(fetchCommentCounts.fulfilled, ...)
fetchCommentCountsFulfilled(state, action) ==
    [state EXCEPT !.commentCounts = action.payload]

\* variant: a completed create marks the list as loaded
createCommentFulfilled_Succeeds(state, action) ==
    IF action.payload # Null
    THEN LET postId == action.payload.post_id
         IN [state EXCEPT
               !.comments = <<action.payload>> \o @,
               !.commentCounts = SetCount(@, postId, CountOr0(@, postId) + 1),
               !.status = "succeeded"]
    ELSE state

\* variant: the count restarts at 1
createCommentFulfilled_Resets(state, action) ==
    IF action.payload # Null
    THEN LET postId == action.payload.post_id
         IN [state EXCEPT
               !.comments = <<action.payload>> \o @,
               !.commentCounts = SetCount(@, postId, 1)]
    ELSE state

\* variant: unshift without counting
createCommentFulfilled_NoCount(state, action) ==
    IF action.payload # Null
    THEN [state EXCEPT !.comments = <<action.payload>> \o @]
    ELSE state

\* .addCase(createComment.fulfilled, ...): unshift, then count + 1
createCommentFulfilled(state, action) ==
    IF action.payload # Null
    THEN LET postId == action.payload.post_id
         IN [state EXCEPT
               !.comments = <<action.payload>> \o @,
               !.commentCounts = SetCount(@, postId, CountOr0(@, postId) + 1)]
    ELSE state

\* variant: the edited comment moves to the front
updateCommentFulfilled_MovesToFront(state, action) ==
    IF action.payload # Null
    THEN LET idx == FindIndex(state.comments, action.payload.id)
         IN IF idx # 0
            THEN [state EXCEPT !.comments =
                    <<action.payload>> \o
                    SelectSeq2(@, {c \in Range(@) : c.id # action.payload.id})]
            ELSE state
    ELSE state

\* .addCase(updateComment.fulfilled, ...): replace at findIndex
updateCommentFulfilled(state, action) ==
    IF action.payload # Null
    THEN LET idx == FindIndex(state.comments, action.payload.id)
         IN IF idx # 0
            THEN [state EXCEPT !.comments[idx] = action.payload]
            ELSE state
    ELSE state

\* variant: count - 1 without Math.max
deleteCommentFulfilled_NoFloor(state, action) ==
    LET idx == FindIndex(state.comments, action.payload)
        kept == SelectSeq2(state.comments,
                   {c \in Range(state.comments) : c.id # action.payload})
    IN IF idx # 0
       THEN LET postId == state.comments[idx].post_id
            IN [state EXCEPT
                  !.comments = kept,
                  !.commentCounts = SetCount(@, postId, CountOr0(@, postId) - 1)]
       ELSE [state EXCEPT !.comments = kept]

\* .addCase(deleteComment.fulfilled, ...): find, filter, then count - 1 floored at 0
\* variant: the entry is cut out at the index found, and -1 cuts the last one
deleteCommentFulfilled_Splices(state, action) ==
    LET idx == FindIndex(state.comments, action.payload)
        n == Len(state.comments)
    IN IF idx # 0
       THEN LET postId == state.comments[idx].post_id
            IN [state EXCEPT
                  !.comments = SelectSeq2(@, {c \in Range(@) : c.id # action.payload}),
                  !.commentCounts =
                     SetCount(@, postId, Max(0, CountOr0(@, postId) - 1))]
       ELSE [state EXCEPT !.comments = SubSeq(@, 1, n - 1)]

deleteCommentFulfilled(state, action) ==
    LET idx == FindIndex(state.comments, action.payload)
        kept == SelectSeq2(state.comments,
                   {c \in Range(state.comments) : c.id # action.payload})
    IN IF idx # 0
       THEN LET postId == state.comments[idx].post_id
            IN [state EXCEPT
                  !.comments = kept,
                  !.commentCounts =
                     SetCount(@, postId, Max(0, CountOr0(@, postId) - 1))]
       ELSE [state EXCEPT !.comments = kept]

\* variant: the comment slice also listens to deleteBlog.fulfilled and drops
\* what it holds about the deleted post
commentReducer_DropsOnPostDelete(state, action) ==
    CASE action.type = "comments/clearComments" -> clearComments(state)
      [] action.type = "comments/fetchCommentsByPost/pending" ->
           fetchCommentsByPostPending(state, action)
      [] action.type = "comments/fetchCommentsByPost/fulfilled" ->
           fetchCommentsByPostFulfilled(state, action)
      [] action.type = "comments/fetchCommentsByPost/rejected" ->
           fetchCommentsByPostRejected(state, action)
      [] action.type = "comments/fetchCommentCounts/fulfilled" ->
           fetchCommentCountsFulfilled(state, action)
      [] action.type = "comments/createComment/fulfilled" ->
           createCommentFulfilled(state, action)
      [] action.type = "comments/updateComment/fulfilled" ->
           updateCommentFulfilled(state, action)
      [] action.type = "comments/deleteComment/fulfilled" ->
           deleteCommentFulfilled(state, action)
      [] action.type = "blogs/deleteBlog/fulfilled" ->
           [state EXCEPT
              !.comments =
                 SelectSeq2(@, {c \in Range(@) : c.post_id # action.payload}),
              !.commentCounts =
                 [p \in DOMAIN @ \ {action.payload} |-> @[p]]]
      [] OTHER -> state

\* commentSlice reducers + extraReducers: the reducer of state.comments
commentReducer(state, action) ==
    CASE action.type = "comments/clearComments" -> clearComments(state)
      [] action.type = "comments/fetchCommentsByPost/pending" ->
           fetchCommentsByPostPending(state, action)
      [] action.type = "comments/fetchCommentsByPost/fulfilled" ->
           fetchCommentsByPostFulfilled(state, action)
      [] action.type = "comments/fetchCommentsByPost/rejected" ->
           fetchCommentsByPostRejected(state, action)
      [] action.type = "comments/fetchCommentCounts/fulfilled" ->
           fetchCommentCountsFulfilled(state, action)
      [] action.type = "comments/createComment/fulfilled" ->
           createCommentFulfilled(state, action)
      [] action.type = "comments/updateComment/fulfilled" ->
           updateCommentFulfilled(state, action)
      [] action.type = "comments/deleteComment/fulfilled" ->
           deleteCommentFulfilled(state, action)
      [] OTHER -> state

\* ------------------------------------------------ backend service client
\* Response of a supabase call: { data, error } (count for a head query)
Ok(data) == [error |-> Null, data |-> data, thrown |-> Null]
Failed(msg) == [error |-> msg, data |-> Null, thrown |-> Null]
\* The call's promise rejects instead of resolving to { data, error }
Thrown(msg) == [error |-> Null, data |-> Null, thrown |-> msg]

\* Ways a backend call can end; only the storage client lets a promise reject
Outcomes(req) ==
    IF req.op \in {"upload", "remove"} THEN {"ok", "error", "throw"} ELSE {"ok", "error"}

Table(b, name) == IF name = "posts" THEN b.posts ELSE b.comments

WithTable(b, name, rows) ==
    IF name = "posts" THEN [b EXCEPT !.posts = rows] ELSE [b EXCEPT !.comments = rows]

\* A row with the fields of patch overwritten
Patched(row, patch) ==
    [f \in DOMAIN row |-> IF f \in DOMAIN patch THEN patch[f] ELSE row[f]]

\* The backend executing one request.  how # "ok" is any backend failure
\* (network, policy, constraint); now is the backend's clock.
Serve(b, req, how, now) ==
  LET ok == how = "ok" IN
    CASE how = "throw" -> [backend |-> b, resp |-> Thrown(ThrownErr)]
      [] req.op = "select" ->
           IF ~ok THEN [backend |-> b, resp |-> Failed(RowErr)]
           ELSE [backend |-> b,
                 resp |-> Ok(OrderDesc(
                    IF req.table = "posts" THEN b.posts
                    ELSE {c \in b.comments : c.post_id = req.post_id}))]
      [] req.op = "count" ->
           IF ~ok THEN [backend |-> b, resp |-> Failed(RowErr)]
           ELSE [backend |-> b,
                 resp |-> Ok(Cardinality({c \in b.comments : c.post_id = req.post_id}))]
      [] req.op = "insert" ->
           IF ~ok THEN [backend |-> b, resp |-> Failed(RowErr)]
           ELSE LET base == [id |-> IdOf(now), created_at |-> now]
                    row == IF req.table = "posts" THEN base @@ req.row
                           ELSE base @@ [updated_at |-> now] @@ req.row
                IN [backend |-> WithTable(b, req.table, Table(b, req.table) \cup {row}),
                    resp |-> Ok(row)]
      [] req.op = "update" ->
           IF ~ok THEN [backend |-> b, resp |-> Failed(RowErr)]
           ELSE LET hit == {r \in Table(b, req.table) : r.id = req.id}
                IN IF hit = {}
                   THEN [backend |-> b, resp |-> Failed(NoRowErr)]  \* .single() on no row
                   ELSE LET old == CHOOSE r \in hit : TRUE
                            new == Patched(old, req.patch)
                        IN [backend |-> WithTable(b, req.table,
                                           (Table(b, req.table) \ {old}) \cup {new}),
                            resp |-> Ok(new)]
      [] req.op = "delete" ->
           IF ~ok THEN [backend |-> b, resp |-> Failed(RowErr)]
           ELSE [backend |-> WithTable(b, req.table,
                                {r \in Table(b, req.table) : r.id # req.id}),
                 resp |-> Ok(Null)]
      [] req.op = "upload" ->
           IF ~ok \/ req.key \in b.files        \* upsert: false
           THEN [backend |-> b, resp |-> Failed(UploadErr)]
           ELSE [backend |-> [b EXCEPT !.files = @ \cup {req.key}], resp |-> Ok(Null)]
      [] req.op = "remove" ->
           IF ~ok THEN [backend |-> b, resp |-> Failed(RowErr)]
           ELSE [backend |-> [b EXCEPT !.files = @ \ {req.key}], resp |-> Ok(Null)]

\* ------------------------------------------------------------ the thunks
\* A thunk invocation: kind, RTK requestId, argument, the auth user read by
\* getState(), the await it is suspended at (pc, req), its local variables,
\* the requests it has issued with their responses (trace), the lifecycle
\* action it settles to (outcome, payload, error), and the requestId of the
\* last update of the same entity that was fulfilled while this one was in
\* flight (raced, 0 when there is none).
NewTask(kind, requestId, arg, user) ==
    [kind |-> kind, requestId |-> requestId, arg |-> arg, user |-> user,
     pc |-> "start", req |-> Null, local |-> Null, trace |-> <<>>,
     outcome |-> "pending", payload |-> Null, error |-> Null, raced |-> 0]

Await(t, pc, req, local) == [t EXCEPT !.pc = pc, !.req = req, !.local = local]

\* return data: RTK dispatches <kind>/fulfilled with payload = data
Return(t, data) ==
    [t EXCEPT !.pc = "settled", !.req = Null, !.outcome = "fulfilled", !.payload = data]

\* return rejectWithValue(msg): <kind>/rejected, payload = msg, error.message = "Rejected"
RejectWithValue(t, msg) ==
    [t EXCEPT !.pc = "settled", !.req = Null, !.outcome = "rejected",
              !.payload = msg, !.error = Str("Rejected")]

\* the payload creator throws: <kind>/rejected, payload undefined, error = the exception
Throw(t, msg) ==
    [t EXCEPT !.pc = "settled", !.req = Null, !.outcome = "rejected",
              !.payload = Undefined, !.error = msg]

\* variant: !user
Unauthenticated_NoUserOnly(user) == user = Null

\* !user || !user.id
Unauthenticated(user) == user = Null \/ ~Truthy(user.id)

Select(table) == [op |-> "select", table |-> table]
SelectByPost(postId) == [op |-> "select", table |-> "comments", post_id |-> postId]
CountByPost(postId) == [op |-> "count", table |-> "comments", post_id |-> postId]
Insert(table, row) == [op |-> "insert", table |-> table, row |-> row]
Update(table, id, patch) == [op |-> "update", table |-> table, id |-> id, patch |-> patch]
Delete(table, id) == [op |-> "delete", table |-> table, id |-> id]
Upload(key) == [op |-> "upload", key |-> key]
Remove(key) == [op |-> "remove", key |-> key]

\* fetchBlogs
fetchBlogs(t, resp, now) ==
    CASE t.pc = "start" -> Await(t, "row", Select("posts"), Null)
      [] t.pc = "row" ->
           IF resp.error # Null THEN RejectWithValue(t, resp.error)
           ELSE Return(t, resp.data)

\* createBlog
createBlog(t, resp, now) ==
    LET blogData(image_path) ==
            [title |-> t.arg.title, content |-> t.arg.content,
             user_id |-> t.user.id, email |-> t.user.email, image_path |-> image_path]
    IN
    CASE t.pc = "start" ->
           IF Unauthenticated(t.user) THEN RejectWithValue(t, AuthMsgCreateBlog)
           ELSE IF t.arg.file # NoFile
                THEN LET image_path == <<t.user.id, now, t.arg.file.name>>
                     IN Await(t, "upload", Upload(image_path), [image_path |-> image_path])
                ELSE Await(t, "row", Insert("posts", blogData(Null)), [image_path |-> Null])
      [] t.pc = "upload" ->
           IF resp.thrown # Null THEN Throw(t, resp.thrown)
           ELSE IF resp.error # Null THEN RejectWithValue(t, resp.error)
           ELSE Await(t, "row", Insert("posts", blogData(t.local.image_path)), t.local)
      [] t.pc = "row" ->
           IF resp.error # Null THEN RejectWithValue(t, resp.error)
           ELSE Return(t, resp.data)

\* variant: updateBlog that uploads the new file before it removes the old one
updateBlog_UploadFirst(t, resp, now) ==
    LET row(newImagePath) ==
            Update("posts", t.arg.id,
                   [title |-> t.arg.title, content |-> t.arg.content,
                    image_path |-> newImagePath])
    IN
    CASE t.pc = "start" ->
           IF Unauthenticated(t.user) THEN RejectWithValue(t, AuthMsg)
           ELSE LET newImagePath == Coalesce(t.arg.oldImagePath) IN
                IF t.arg.file # NoFile
                THEN LET filePath == <<t.user.id, now, t.arg.file.name>>
                     IN Await(t, "upload", Upload(filePath),
                              [newImagePath |-> newImagePath, filePath |-> filePath])
                ELSE Await(t, "row", row(newImagePath),
                           [newImagePath |-> newImagePath, filePath |-> Null])
      [] t.pc = "upload" ->
           IF resp.thrown # Null THEN RejectWithValue(t, resp.thrown)
           ELSE IF resp.error # Null THEN RejectWithValue(t, resp.error)
           ELSE IF Truthy(t.arg.oldImagePath)
                THEN Await(t, "remove", Remove(t.arg.oldImagePath), t.local)
                ELSE Await(t, "row", row(t.local.filePath),
                           [t.local EXCEPT !.newImagePath = t.local.filePath])
      [] t.pc = "remove" ->
           Await(t, "row", row(t.local.filePath),
                 [t.local EXCEPT !.newImagePath = t.local.filePath])
      [] t.pc = "row" ->
           IF resp.error # Null THEN RejectWithValue(t, resp.error)
           ELSE Return(t, resp.data)

\* updateBlog
updateBlog(t, resp, now) ==
    LET row(newImagePath) ==
            Update("posts", t.arg.id,
                   [title |-> t.arg.title, content |-> t.arg.content,
                    image_path |-> newImagePath])
    IN
    CASE t.pc = "start" ->
           IF Unauthenticated(t.user) THEN RejectWithValue(t, AuthMsg)
           ELSE LET newImagePath == Coalesce(t.arg.oldImagePath) IN
                IF t.arg.file # NoFile
                THEN LET filePath == <<t.user.id, now, t.arg.file.name>>
                         local == [newImagePath |-> newImagePath, filePath |-> filePath]
                     IN IF Truthy(t.arg.oldImagePath)
                        THEN Await(t, "remove", Remove(t.arg.oldImagePath), local)
                        ELSE Await(t, "upload", Upload(filePath), local)
                ELSE Await(t, "row", row(newImagePath),
                           [newImagePath |-> newImagePath, filePath |-> Null])
      [] t.pc = "remove" ->                      \* .catch(() => {}): result ignored
           Await(t, "upload", Upload(t.local.filePath), t.local)
      [] t.pc = "upload" ->
           IF resp.thrown # Null THEN RejectWithValue(t, resp.thrown)   \* catch (err)
           ELSE IF resp.error # Null THEN RejectWithValue(t, resp.error)
           ELSE Await(t, "row", row(t.local.filePath),
                      [t.local EXCEPT !.newImagePath = t.local.filePath])
      [] t.pc = "row" ->
           IF resp.error # Null THEN RejectWithValue(t, resp.error)
           ELSE Return(t, resp.data)

\* variant: deleteBlog that asks again for as long as the row delete fails
deleteBlog_Retries(t, resp, now) ==
    CASE t.pc = "start" -> Await(t, "row", Delete("posts", t.arg), Null)
      [] t.pc = "row" ->
           IF resp.error # Null
           THEN Await([t EXCEPT !.trace = <<>>], "row", Delete("posts", t.arg),
                      IF t.local = Null THEN Str("again") ELSE Null)
           ELSE Return(t, t.arg)

\* deleteBlog
deleteBlog(t, resp, now) ==
    CASE t.pc = "start" -> Await(t, "row", Delete("posts", t.arg), Null)
      [] t.pc = "row" ->
           IF resp.error # Null THEN RejectWithValue(t, resp.error)
           ELSE Return(t, t.arg)

\* fetchCommentsByPost
fetchCommentsByPost(t, resp, now) ==
    CASE t.pc = "start" -> Await(t, "row", SelectByPost(t.arg), Null)
      [] t.pc = "row" ->
           IF resp.error # Null THEN RejectWithValue(t, resp.error)
           ELSE Return(t, resp.data)

\* variant: a failed query ends the loop and the counts obtained so far are returned
fetchCommentCounts_Partial(t, resp, now) ==
    CASE t.pc = "start" ->
           IF t.arg = <<>> THEN Return(t, <<>>)
           ELSE Await(t, "count", CountByPost(t.arg[1]), [counts |-> <<>>, i |-> 1])
      [] t.pc = "count" ->
           IF resp.error # Null THEN Return(t, t.local.counts)
           ELSE LET counts == SetCount(t.local.counts, t.arg[t.local.i], resp.data)
                    i == t.local.i + 1
                IN IF i > Len(t.arg) THEN Return(t, counts)
                   ELSE Await(t, "count", CountByPost(t.arg[i]), [counts |-> counts, i |-> i])

\* fetchCommentCounts
fetchCommentCounts(t, resp, now) ==
    CASE t.pc = "start" ->
           IF t.arg = <<>> THEN Return(t, <<>>)
           ELSE Await(t, "count", CountByPost(t.arg[1]), [counts |-> <<>>, i |-> 1])
      [] t.pc = "count" ->
           IF resp.error # Null THEN RejectWithValue(t, resp.error)   \* throw error; catch
           ELSE LET counts == SetCount(t.local.counts, t.arg[t.local.i], resp.data)
                    i == t.local.i + 1
                IN IF i > Len(t.arg) THEN Return(t, counts)
                   ELSE Await(t, "count", CountByPost(t.arg[i]), [counts |-> counts, i |-> i])

\* variant: createComment that inserts whatever the upload returned
createComment_UploadErrorIgnored(t, resp, now) ==
    LET commentData(image_path) ==
            [content |-> t.arg.content, post_id |-> t.arg.postId,
             user_id |-> t.user.id, email |-> t.user.email, image_path |-> image_path]
    IN
    CASE t.pc = "start" ->
           IF Unauthenticated(t.user) THEN RejectWithValue(t, AuthMsg)
           ELSE IF t.arg.file # NoFile
                THEN LET image_path == <<t.user.id, now, t.arg.file.ext>>
                     IN Await(t, "upload", Upload(image_path), [image_path |-> image_path])
                ELSE Await(t, "row", Insert("comments", commentData(Null)),
                           [image_path |-> Null])
      [] t.pc = "upload" ->
           IF resp.thrown # Null THEN Throw(t, resp.thrown)
           ELSE Await(t, "row", Insert("comments", commentData(t.local.image_path)), t.local)
      [] t.pc = "row" ->
           IF resp.error # Null THEN RejectWithValue(t, resp.error)
           ELSE Return(t, resp.data)

\* createComment
createComment(t, resp, now) ==
    LET commentData(image_path) ==
            [content |-> t.arg.content, post_id |-> t.arg.postId,
             user_id |-> t.user.id, email |-> t.user.email, image_path |-> image_path]
    IN
    CASE t.pc = "start" ->
           IF Unauthenticated(t.user) THEN RejectWithValue(t, AuthMsg)
           ELSE IF t.arg.file # NoFile
                THEN LET image_path == <<t.user.id, now, t.arg.file.ext>>
                     IN Await(t, "upload", Upload(image_path), [image_path |-> image_path])
                ELSE Await(t, "row", Insert("comments", commentData(Null)),
                           [image_path |-> Null])
      [] t.pc = "upload" ->
           IF resp.thrown # Null THEN Throw(t, resp.thrown)
           ELSE IF resp.error # Null THEN RejectWithValue(t, resp.error)
           ELSE Await(t, "row", Insert("comments", commentData(t.local.image_path)), t.local)
      [] t.pc = "row" ->
           IF resp.error # Null THEN RejectWithValue(t, resp.error)
           ELSE Return(t, resp.data)

\* variant: updateComment that tests the file before shouldRemoveImage
updateComment_FileFirst(t, resp, now) ==
    LET row(newImagePath) ==
            Update("comments", t.arg.id,
                   [content |-> t.arg.content, image_path |-> newImagePath,
                    updated_at |-> now])
    IN
    CASE t.pc = "start" ->
           IF Unauthenticated(t.user) THEN RejectWithValue(t, AuthMsg)
           ELSE LET newImagePath == Coalesce(t.arg.oldImagePath) IN
                IF t.arg.shouldRemoveImage /\ t.arg.file = NoFile
                THEN IF Truthy(t.arg.oldImagePath)
                     THEN Await(t, "remove", Remove(t.arg.oldImagePath),
                                [newImagePath |-> newImagePath, filePath |-> Null])
                     ELSE Await(t, "row", row(Null),
                                [newImagePath |-> Null, filePath |-> Null])
                ELSE IF t.arg.file # NoFile
                THEN LET filePath == <<t.user.id, now, t.arg.file.ext>>
                         local == [newImagePath |-> newImagePath, filePath |-> filePath]
                     IN IF Truthy(t.arg.oldImagePath)
                        THEN Await(t, "remove", Remove(t.arg.oldImagePath), local)
                        ELSE Await(t, "upload", Upload(filePath), local)
                ELSE Await(t, "row", row(newImagePath),
                           [newImagePath |-> newImagePath, filePath |-> Null])
      [] t.pc = "remove" ->                      \* .catch(() => {}): result ignored
           IF t.arg.shouldRemoveImage /\ t.arg.file = NoFile
           THEN Await(t, "row", row(Null), [t.local EXCEPT !.newImagePath = Null])
           ELSE Await(t, "upload", Upload(t.local.filePath), t.local)
      [] t.pc = "upload" ->
           IF resp.thrown # Null THEN RejectWithValue(t, resp.thrown)   \* catch (err)
           ELSE IF resp.error # Null THEN RejectWithValue(t, resp.error)
           ELSE Await(t, "row", row(t.local.filePath),
                      [t.local EXCEPT !.newImagePath = t.local.filePath])
      [] t.pc = "row" ->
           IF resp.error # Null THEN RejectWithValue(t, resp.error)
           ELSE Return(t, resp.data)

\* updateComment
updateComment(t, resp, now) ==
    LET row(newImagePath) ==
            Update("comments", t.arg.id,
                   [content |-> t.arg.content, image_path |-> newImagePath,
                    updated_at |-> now])
    IN
    CASE t.pc = "start" ->
           IF Unauthenticated(t.user) THEN RejectWithValue(t, AuthMsg)
           ELSE LET newImagePath == Coalesce(t.arg.oldImagePath) IN
                IF t.arg.shouldRemoveImage
                THEN IF Truthy(t.arg.oldImagePath)
                     THEN Await(t, "remove", Remove(t.arg.oldImagePath),
                                [newImagePath |-> newImagePath, filePath |-> Null])
                     ELSE Await(t, "row", row(Null),
                                [newImagePath |-> Null, filePath |-> Null])
                ELSE IF t.arg.file # NoFile
                THEN LET filePath == <<t.user.id, now, t.arg.file.ext>>
                         local == [newImagePath |-> newImagePath, filePath |-> filePath]
                     IN IF Truthy(t.arg.oldImagePath)
                        THEN Await(t, "remove", Remove(t.arg.oldImagePath), local)
                        ELSE Await(t, "upload", Upload(filePath), local)
                ELSE Await(t, "row", row(newImagePath),
                           [newImagePath |-> newImagePath, filePath |-> Null])
      [] t.pc = "remove" ->                      \* .catch(() => {}): result ignored
           IF t.arg.shouldRemoveImage
           THEN Await(t, "row", row(Null), [t.local EXCEPT !.newImagePath = Null])
           ELSE Await(t, "upload", Upload(t.local.filePath), t.local)
      [] t.pc = "upload" ->
           IF resp.thrown # Null THEN RejectWithValue(t, resp.thrown)   \* catch (err)
           ELSE IF resp.error # Null THEN RejectWithValue(t, resp.error)
           ELSE Await(t, "row", row(t.local.filePath),
                      [t.local EXCEPT !.newImagePath = t.local.filePath])
      [] t.pc = "row" ->
           IF resp.error # Null THEN RejectWithValue(t, resp.error)
           ELSE Return(t, resp.data)

\* variant: deleteComment that gives up when the image cannot be removed
deleteComment_RemoveChecked(t, resp, now) ==
    CASE t.pc = "start" ->
           IF Truthy(t.arg.imagePath)
           THEN Await(t, "remove", Remove(t.arg.imagePath), Null)
           ELSE Await(t, "row", Delete("comments", t.arg.id), Null)
      [] t.pc = "remove" ->
           IF resp.thrown # Null THEN RejectWithValue(t, resp.thrown)
           ELSE IF resp.error # Null THEN RejectWithValue(t, resp.error)
           ELSE Await(t, "row", Delete("comments", t.arg.id), Null)
      [] t.pc = "row" ->
           IF resp.error # Null THEN RejectWithValue(t, resp.error)
           ELSE Return(t, t.arg.id)

\* variant: deleteComment that does not check the row delete
deleteComment_RowErrorIgnored(t, resp, now) ==
    CASE t.pc = "start" ->
           IF Truthy(t.arg.imagePath)
           THEN Await(t, "remove", Remove(t.arg.imagePath), Null)
           ELSE Await(t, "row", Delete("comments", t.arg.id), Null)
      [] t.pc = "remove" ->                      \* .catch(() => {}): result ignored
           Await(t, "row", Delete("comments", t.arg.id), Null)
      [] t.pc = "row" ->
           Return(t, t.arg.id)

\* deleteComment
deleteComment(t, resp, now) ==
    CASE t.pc = "start" ->
           IF Truthy(t.arg.imagePath)
           THEN Await(t, "remove", Remove(t.arg.imagePath), Null)
           ELSE Await(t, "row", Delete("comments", t.arg.id), Null)
      [] t.pc = "remove" ->                      \* .catch(() => {}): result ignored
           Await(t, "row", Delete("comments", t.arg.id), Null)
      [] t.pc = "row" ->
           IF resp.error # Null THEN RejectWithValue(t, resp.error)
           ELSE Return(t, t.arg.id)

\* The payload creator of a task, run from its current await to the next
Resume(t, resp, now) ==
    CASE t.kind = "blogs/fetchBlogs" -> fetchBlogs(t, resp, now)
      [] t.kind = "blogs/createBlog" -> createBlog(t, resp, now)
      [] t.kind = "blogs/updateBlog" -> updateBlog(t, resp, now)
      [] t.kind = "blogs/deleteBlog" -> deleteBlog(t, resp, now)
      [] t.kind = "comments/fetchCommentsByPost" -> fetchCommentsByPost(t, resp, now)
      [] t.kind = "comments/fetchCommentCounts" -> fetchCommentCounts(t, resp, now)
      [] t.kind = "comments/createComment" -> createComment(t, resp, now)
      [] t.kind = "comments/updateComment" -> updateComment(t, resp, now)
      [] t.kind = "comments/deleteComment" -> deleteComment(t, resp, now)

\* ------------------------------------------------------------- the state
VARIABLES
    blogState,      \* state.blog: { blogs, status, error }
    commentState,   \* state.comments: { comments, commentCounts, status, error }
    backend,        \* tables posts and comments, bucket post-files
    clock,          \* wall clock: Date.now() and the backend's timestamps
    tasks,          \* thunks in flight, by slot
    nOps,           \* thunks dispatched so far (source of requestId)
    viewed,         \* postId prop of the mounted Comments component
    result,         \* the final action a settled thunk hands to the caller
                    \* awaiting dispatch(...); Null once the caller has resumed
    hist            \* history: per-post counters since the last count fetch,
                    \* result of the last successful fetchBlogs

vars == <<blogState, commentState, backend, clock, tasks, nOps, viewed, result, hist>>

Slots == 1..MaxInFlight
Free == Null

\* A lifecycle action of createAsyncThunk; task is the settled invocation
ActionOf(t, status) ==
    [type |-> t.kind \o "/" \o status,
     payload |-> IF status = "pending" THEN Undefined ELSE t.payload,
     error |-> t.error,
     meta |-> [arg |-> t.arg, requestId |-> t.requestId, requestStatus |-> status],
     task |-> t]

ClearAction ==
    [type |-> "comments/clearComments", payload |-> Undefined, error |-> Null,
     meta |-> [arg |-> Null, requestId |-> 0, requestStatus |-> "none"],
     task |-> Null]

\* rows present before the session starts
Post1 == [id |-> IdOf(1), title |-> Str("T"), content |-> Str("A"),
          user_id |-> Str("u1"), email |-> Str("u1@x"), image_path |-> Null,
          created_at |-> 1]
Blob2 == <<Str("u1"), 2, "png">>
Comment2 == [id |-> IdOf(2), content |-> Str("A"), post_id |-> IdOf(1),
             user_id |-> Str("u1"), email |-> Str("u1@x"), image_path |-> Blob2,
             created_at |-> 2, updated_at |-> 2]

ZeroCounts == [p \in PostIds |-> 0]
HistInit ==
    [base |-> ZeroCounts, created |-> ZeroCounts, deleted |-> ZeroCounts,
     removed |-> ZeroCounts, floored |-> [p \in PostIds |-> FALSE],
     postOf |-> (IdOf(2) :> IdOf(1)),
     lastFetched |-> <<>>, fetchOnly |-> TRUE, scope |-> Null, mutations |-> 0,
     gone |-> <<>>, mixed |-> FALSE]

Init ==
    /\ blogState = BlogInitialState
    /\ commentState = CommentInitialState
    /\ backend = [posts |-> {Post1}, comments |-> {Comment2}, files |-> {Blob2}]
    /\ clock = 3
    /\ tasks = [s \in Slots |-> Free]
    /\ nOps = 0
    /\ viewed = Null
    /\ result = Null
    /\ hist = HistInit

\* ----------------------------------------------------- history variables
\* hist after the store has reduced action a in comment state cs
HistAfter(h, cs, a) ==
    CASE a.type = "comments/fetchCommentCounts/fulfilled" ->
           [h EXCEPT !.base = [p \in PostIds |-> CountOr0(a.payload, p)],
                     !.created = ZeroCounts, !.deleted = ZeroCounts,
                     !.removed = ZeroCounts,
                     !.floored = [p \in PostIds |-> FALSE]]
      [] a.type = "comments/createComment/fulfilled" ->
           [h EXCEPT !.created[a.payload.post_id] = @ + 1]
      [] a.type = "comments/deleteComment/fulfilled" ->
           LET idx == FindIndex(cs.comments, a.payload)
               h1 == IF a.payload \in DOMAIN h.postOf
                     THEN [h EXCEPT !.deleted[h.postOf[a.payload]] = @ + 1]
                     ELSE h
           IN IF idx = 0 THEN h1
              ELSE LET p == cs.comments[idx].post_id
                   IN [h1 EXCEPT !.removed[p] = @ + 1,
                                 !.floored[p] = @ \/ CountOr0(cs.commentCounts, p) = 0]
      [] a.type = "blogs/fetchBlogs/fulfilled" ->
           [h EXCEPT !.lastFetched = a.payload]
      [] a.type \in {"blogs/createBlog/fulfilled", "blogs/updateBlog/fulfilled"} ->
           [h EXCEPT !.fetchOnly = FALSE]
      \* gone: the deleted id, with the number of thunks dispatched so far
      [] a.type = "blogs/deleteBlog/fulfilled" ->
           [h EXCEPT !.fetchOnly = FALSE, !.gone = (a.payload :> nOps) @@ @]
      [] OTHER -> h

\* hist after the backend has served req with response resp
HistServed(h, req, resp) ==
    IF req.op = "insert" /\ req.table = "comments" /\ resp.error = Null
    THEN [h EXCEPT !.postOf = (resp.data.id :> resp.data.post_id) @@ @]
    ELSE h

\* -------------------------------------------------------------- actions
BlogKinds ==
    {"blogs/fetchBlogs", "blogs/createBlog", "blogs/updateBlog", "blogs/deleteBlog"}
MutationKinds ==
    {"blogs/createBlog", "blogs/updateBlog", "blogs/deleteBlog",
     "comments/createComment", "comments/updateComment", "comments/deleteComment"}
\* the slice a thunk belongs to (its type prefix), as <<name>>
SliceOf(kind) == IF kind \in BlogKinds THEN Str("blogs") ELSE Str("comments")

\* store.dispatch(a): every slice reducer sees every action
Reduce(a) ==
    /\ blogState' = blogReducer(blogState, a)
    /\ commentState' = commentReducer(commentState, a)
    /\ hist' = HistAfter(hist, commentState, a)

FreeSlot == CHOOSE s \in Slots : tasks[s] = Free /\ \A r \in 1..(s-1) : tasks[r] # Free

\* dispatch(thunk(arg)): <kind>/pending is reduced and the payload creator runs
\* to its first await.  A creator that returns before any await settles in the
\* same turn of the event loop.
\* a post thunk joins post thunks in flight, and they are not all updateBlog
MixesWithInFlight(kind) ==
    /\ kind \in BlogKinds
    /\ \E s \in Slots :
          /\ tasks[s] # Free
          /\ tasks[s].kind \in BlogKinds
          /\ {kind, tasks[s].kind} # {"blogs/updateBlog"}

Start(kind, arg, user, pre, in) ==
    /\ result = Null
    /\ nOps < in.budget
    /\ kind \in MutationKinds => hist.mutations < in.mutations
    /\ in.exclusive => hist.scope \in {Null, SliceOf(kind)}
    /\ \E s \in Slots : tasks[s] = Free
    /\ LET t0 == NewTask(kind, nOps + 1, arg, user)
           t1 == Resume(t0, Null, clock)
           bs1 == blogReducer(blogState, ActionOf(t0, "pending"))
           cs1 == commentReducer(pre, ActionOf(t0, "pending"))
           h0 == IF kind \in MutationKinds
                 THEN [hist EXCEPT !.mutations = @ + 1] ELSE hist
           h1 == IF in.exclusive THEN [h0 EXCEPT !.scope = SliceOf(kind)] ELSE h0
       IN IF t1.pc = "settled"
          THEN /\ blogState' = blogReducer(bs1, ActionOf(t1, t1.outcome))
               /\ commentState' = commentReducer(cs1, ActionOf(t1, t1.outcome))
               /\ hist' = HistAfter(h1, cs1, ActionOf(t1, t1.outcome))
               /\ result' = ActionOf(t1, t1.outcome)
               /\ UNCHANGED tasks
          ELSE /\ blogState' = bs1
               /\ commentState' = cs1
               /\ tasks' = [tasks EXCEPT ![FreeSlot] = t1]
               /\ hist' = IF MixesWithInFlight(kind)
                          THEN [h1 EXCEPT !.mixed = TRUE] ELSE h1
               /\ UNCHANGED result
    /\ nOps' = nOps + 1
    /\ clock' = clock + 1
    /\ UNCHANGED backend

Dispatch(kind, arg, user, in) ==
    Start(kind, arg, user, commentState, in) /\ UNCHANGED viewed

\* identifiers and image paths the view can hold for a table
KnownIds(rows, cached) == {r.id : r \in rows} \cup {r.id : r \in Range(cached)}
HeldPaths(rows, cached, id) ==
    {r.image_path : r \in {q \in rows \cup Range(cached) : q.id = id}}
KnownPaths(rows, cached, id) == {Undefined, Null} \cup HeldPaths(rows, cached, id)

\* input profiles: every argument variant, or the text-only operations a
\* signed-in user can trigger from the views: posts are edited by route id,
\* comments from the list the mounted Comments component renders
UsersOf(in) == IF in.attachments THEN Users ELSE {Alice}
IdsOf(in, rows, cached) ==
    IF in.attachments THEN KnownIds(rows, cached) \cup {NoSuchId} ELSE KnownIds(rows, cached)
CommentIdsOf(in) ==
    IF in.attachments
    THEN KnownIds(backend.comments, commentState.comments) \cup {NoSuchId}
    ELSE {c.id : c \in Range(commentState.comments)}
Mounted(in) == in.attachments \/ viewed # Null
FilesOf(in) == IF in.attachments THEN Files ELSE {NoFile}
PathsOf(in, rows, cached, id) ==
    IF in.attachments THEN KnownPaths(rows, cached, id) ELSE {Undefined}
\* oldImagePath of updateBlog: any string the caller holds, a stored key included
PostPathsOf(in, id) ==
    IF in.attachments
    THEN KnownPaths(backend.posts, blogState.blogs, id) \cup {Blob2}
    ELSE {Undefined}
\* content of an edit: one new text, or (text-only profile) either text
EditedContentsOf(in) == IF in.attachments THEN {Str("B")} ELSE Contents
RemovesOf(in) == IF in.attachments THEN BOOLEAN ELSE {FALSE}
NewContentsOf(in) == IF in.attachments THEN Contents ELSE {Str("A")}

DispatchFetchBlogs(in) == Dispatch("blogs/fetchBlogs", Undefined, NoUser, in)

DispatchCreateBlog(in) ==
    \E user \in UsersOf(in), title \in Titles, content \in NewContentsOf(in), file \in FilesOf(in) :
        Dispatch("blogs/createBlog",
                 [title |-> title, content |-> content, file |-> file], user, in)

DispatchUpdateBlog(in) ==
    \E user \in UsersOf(in), id \in IdsOf(in, backend.posts, blogState.blogs),
       title \in Titles, content \in EditedContentsOf(in), file \in FilesOf(in) :
      \E oldImagePath \in PostPathsOf(in, id) :
        Dispatch("blogs/updateBlog",
                 [id |-> id, title |-> title, content |-> content, file |-> file,
                  oldImagePath |-> oldImagePath], user, in)

DispatchDeleteBlog(in) ==
    \E id \in IdsOf(in, backend.posts, blogState.blogs) :
        Dispatch("blogs/deleteBlog", id, NoUser, in)

CountBatches == {<<IdOf(1)>>, <<IdOf(1), IdOf(2)>>}

DispatchFetchCommentCounts(in) ==
    \E postIds \in CountBatches :
        Dispatch("comments/fetchCommentCounts", postIds, NoUser, in)

\* Comments.handleSubmit: the comment is created for the post being viewed
DispatchCreateComment(in) ==
    /\ Mounted(in)
    /\ \E user \in UsersOf(in), content \in NewContentsOf(in), file \in FilesOf(in),
       postId \in (IF viewed = Null THEN PostIds ELSE {viewed}) :
        Dispatch("comments/createComment",
                 [postId |-> postId, content |-> content, file |-> file], user, in)

DispatchUpdateComment(in) ==
    /\ Mounted(in)
    /\ \E user \in UsersOf(in), id \in CommentIdsOf(in),
       content \in EditedContentsOf(in), file \in FilesOf(in),
       shouldRemoveImage \in RemovesOf(in) :
      \E oldImagePath \in PathsOf(in, backend.comments, commentState.comments, id) :
        Dispatch("comments/updateComment",
                 [id |-> id, content |-> content, file |-> file,
                  oldImagePath |-> oldImagePath,
                  shouldRemoveImage |-> shouldRemoveImage], user, in)

\* Comments.handleDelete passes the image path of the comment it deletes
DispatchDeleteComment(in) ==
    /\ Mounted(in)
    /\ \E id \in CommentIdsOf(in) :
      \E imagePath \in (IF in.attachments
                         THEN KnownPaths(backend.comments, commentState.comments, id)
                         ELSE HeldPaths(backend.comments, commentState.comments, id)) :
        Dispatch("comments/deleteComment", [id |-> id, imagePath |-> imagePath], NoUser, in)

\* dispatch(clearComments())
ClearComments ==
    /\ result = Null
    /\ Reduce(ClearAction)
    /\ UNCHANGED <<backend, clock, tasks, nOps, viewed, result>>

\* The effect of the Comments component on mount / postId change:
\* dispatch(clearComments()); dispatch(fetchCommentsByPost(postId))
CommentsEffect(in) ==
    \E postId \in PostIds :
        /\ Start("comments/fetchCommentsByPost", postId, NoUser,
                 clearComments(commentState), in)
        /\ viewed' = postId

\* The backend serves the request task s is awaiting, and the payload creator
\* runs on to its next await or to its return.
BackendStep(s) ==
    /\ result = Null
    /\ tasks[s] # Free
    /\ tasks[s].pc # "settled"
    /\ \E how \in Outcomes(tasks[s].req) :
         LET t == tasks[s]
             r == Serve(backend, t.req, how, clock)
             now == IF t.req.op = "insert" /\ r.resp.error = Null THEN clock + 1 ELSE clock
             t1 == [t EXCEPT !.trace = Append(@, [req |-> t.req, resp |-> r.resp])]
             t2 == Resume(t1, r.resp, now)
             stamped == t2.req # Null /\ t2.req.op = "update"
                        /\ "updated_at" \in DOMAIN t2.req.patch
         IN /\ backend' = r.backend
            /\ tasks' = [tasks EXCEPT ![s] = t2]
            /\ clock' = IF stamped THEN now + 1 ELSE now
            /\ hist' = HistServed(hist, t.req, r.resp)
    /\ UNCHANGED <<blogState, commentState, nOps, viewed, result>>

\* The settled thunk dispatches its fulfilled / rejected action
Complete(s) ==
    /\ result = Null
    /\ tasks[s] # Free
    /\ tasks[s].pc = "settled"
    /\ LET t == tasks[s]
           a == ActionOf(t, t.outcome)
           sameEntity(u) ==
               /\ u # Free
               /\ u.kind = t.kind
               /\ t.kind \in {"blogs/updateBlog", "comments/updateComment"}
               /\ t.outcome = "fulfilled"
               /\ u.arg.id = t.arg.id
       IN /\ Reduce(a)
          /\ result' = a
          /\ tasks' = [r \in Slots |->
                         IF r = s THEN Free
                         ELSE IF sameEntity(tasks[r]) THEN [tasks[r] EXCEPT !.raced = t.requestId]
                         ELSE tasks[r]]
    /\ UNCHANGED <<backend, clock, nOps, viewed>>

\* The promise returned by dispatch(thunk(arg)) resolves: the awaiting caller
\* (handleSubmit, handleUpdate, handleDelete, handleEdit) resumes with the action
Settle ==
    /\ result # Null
    /\ result' = Null
    /\ UNCHANGED <<blogState, commentState, backend, clock, tasks, nOps, viewed, hist>>

\* Every operation in every argument variant
Shallow ==
    [budget |-> MaxOps, mutations |-> MaxMutations, attachments |-> TRUE,
     exclusive |-> FALSE]

Next ==
    \/ DispatchFetchBlogs(Shallow)
    \/ DispatchCreateBlog(Shallow)
    \/ DispatchUpdateBlog(Shallow)
    \/ DispatchDeleteBlog(Shallow)
    \/ DispatchFetchCommentCounts(Shallow)
    \/ DispatchCreateComment(Shallow)
    \/ DispatchUpdateComment(Shallow)
    \/ DispatchDeleteComment(Shallow)
    \/ ClearComments
    \/ CommentsEffect(Shallow)
    \/ \E s \in Slots : BackendStep(s)
    \/ \E s \in Slots : Complete(s)
    \/ Settle

Spec == Init /\ [][Next]_vars

\* Longer behaviours of one page of the application: the post pages (post
\* thunks) or a post's detail page (comment thunks), without attachments
Deep ==
    [budget |-> MaxDeepOps, mutations |-> MaxDeepOps, attachments |-> FALSE,
     exclusive |-> TRUE]

NextDeep ==
    \/ DispatchFetchBlogs(Deep)
    \/ DispatchCreateBlog(Deep)
    \/ DispatchUpdateBlog(Deep)
    \/ DispatchDeleteBlog(Deep)
    \/ DispatchFetchCommentCounts(Deep)
    \/ DispatchCreateComment(Deep)
    \/ DispatchUpdateComment(Deep)
    \/ DispatchDeleteComment(Deep)
    \/ ClearComments
    \/ CommentsEffect(Deep)
    \/ \E s \in Slots : BackendStep(s)
    \/ \E s \in Slots : Complete(s)
    \/ Settle

SpecDeep == Init /\ [][NextDeep]_vars

\* Every backend call returns, every settled thunk dispatches its final action
\* and every awaiting caller resumes
Fairness ==
    /\ \A s \in Slots : WF_vars(BackendStep(s)) /\ WF_vars(Complete(s))
    /\ WF_vars(Settle)

SpecLive == Spec /\ Fairness

\* ------------------------------------------------------------ type check
TypeOK ==
    /\ blogState.status \in {"idle", "loading", "succeeded", "failed"}
    /\ commentState.status \in {"idle", "loading", "succeeded", "failed"}
    /\ nOps \in Nat

\* ================================================================ claims
\* shorthands over the action a settled thunk hands back
Settled(kind, status) ==
    /\ result # Null
    /\ result.type = kind \o "/" \o status

\* a step in which some thunk's fulfilled / rejected action is reduced
Completes == result = Null /\ result' # Null

UpdateKinds == {"blogs/updateBlog", "comments/updateComment"}

\* the rows of a cache, by slice
Cached(kind) == IF kind \in BlogKinds THEN blogState.blogs ELSE commentState.comments

\* the last request of a settled task and its response
LastCall(t) == t.trace[Len(t.trace)]
FailedAtRow(t) ==
    /\ t.trace # <<>>
    /\ LastCall(t).req.op \in {"insert", "update", "delete"}
    /\ LastCall(t).resp.error # Null
Issued(t, op) == \E i \in 1..Len(t.trace) : t.trace[i].req.op = op

C2_ScopedToViewedPost ==
    viewed # Null =>
        \A i \in 1..Len(commentState.comments) :
            commentState.comments[i].post_id = viewed

\* ---------------------------------------------------------------- C3
\* C3: no two entries of blogs have the same id.
C3_UniquePostIds ==
    \A i, j \in 1..Len(blogState.blogs) :
        i # j => blogState.blogs[i].id # blogState.blogs[j].id

\* ---------------------------------------------------------------- C4
\* C4: as long as no createBlog, updateBlog or deleteBlog has been fulfilled,
\* blogs is the result of the last fetchBlogs that was fulfilled (empty before
\* the first), whatever the order of the completions and whatever fetches were
\* rejected before or after it.
C4_LastSuccessfulFetch ==
    hist.fetchOnly => blogState.blogs = hist.lastFetched

\* a fulfilled fetch that returned rows, then a rejected one
C4_Witness ==
    /\ hist.fetchOnly
    /\ blogState.status = "failed"
    /\ blogState.blogs # <<>>
    /\ blogState.blogs = hist.lastFetched

\* ---------------------------------------------------------------- C5
\* C5: when an update of an entity is fulfilled after another update of the same
\* entity, in flight together with it, was fulfilled, the cached entry of that
\* id is the payload of this second completion.
C5_LastCompletionWins ==
    \A kind \in UpdateKinds :
        (Settled(kind, "fulfilled") /\ result.task.raced # 0) =>
            \A i \in 1..Len(Cached(kind)) :
                Cached(kind)[i].id = result.payload.id => Cached(kind)[i] = result.payload

\* the update dispatched first completes second and overwrites a different entry
C5_Witness ==
    /\ Settled("blogs/updateBlog", "fulfilled")
    /\ result.task.raced > result.meta.requestId
    /\ \E i \in 1..Len(blogState.blogs) :
          /\ blogState.blogs[i] = result.payload
          /\ blogState.blogs[i].content = Str("A")

\* ---------------------------------------------------------------- C6
\* the message a rejected action carries: the rejectWithValue payload, or the
\* message of the exception the payload creator threw
MessageOf(a) == IF a.payload # Undefined THEN a.payload ELSE a.error
ErrorOf(kind) == IF kind \in BlogKinds THEN blogState.error ELSE commentState.error

\* C6: when a create, update or delete thunk is rejected (unauthenticated,
\* upload error or row error), the error field of its slice holds the failure
\* message once the rejected action has been reduced.
C6_ErrorRecorded ==
    \A kind \in MutationKinds :
        Settled(kind, "rejected") => ErrorOf(kind) = MessageOf(result)

\* ---------------------------------------------------------------- C7
CollectionsUnchanged ==
    /\ blogState.blogs' = blogState.blogs
    /\ commentState.comments' = commentState.comments
    /\ commentState.commentCounts' = commentState.commentCounts

\* the blob keys a task removed from the bucket
RemovedKeys(t) ==
    {t.trace[i].req.key : i \in {j \in 1..Len(t.trace) :
        /\ t.trace[j].req.op = "remove"
        /\ t.trace[j].resp.error = Null
        /\ t.trace[j].resp.thrown = Null}}

\* a mutation thunk is dispatched and awaits its first backend call
DispatchesMutation ==
    /\ hist'.mutations = hist.mutations + 1
    /\ result' = Null

\* C7: a create, update or delete whose row operation returns an error is
\* rejected, and neither its dispatch nor its completion changes blogs,
\* comments or commentCounts; a blob it removed before the row operation stays
\* removed.
C7_RowFailureLeavesCache ==
    [][/\ DispatchesMutation => CollectionsUnchanged
       /\ (Completes /\ result'.task.kind \in MutationKinds /\ FailedAtRow(result'.task)) =>
            /\ result'.meta.requestStatus = "rejected"
            /\ CollectionsUnchanged
            /\ RemovedKeys(result'.task) \cap backend'.files = {}]_vars

\* deleteComment of a cached comment: its image is removed, the row delete fails
C7_Witness ==
    /\ Settled("comments/deleteComment", "rejected")
    /\ FailedAtRow(result.task)
    /\ result.task.arg.imagePath \in RemovedKeys(result.task)
    /\ result.task.arg.imagePath \notin backend.files
    /\ \E i \in 1..Len(commentState.comments) :
          /\ commentState.comments[i].id = result.task.arg.id
          /\ commentState.comments[i].image_path = result.task.arg.imagePath
    /\ \E c \in backend.comments : c.id = result.task.arg.id

\* ---------------------------------------------------------------- C8
CreateKinds == {"blogs/createBlog", "comments/createComment"}
UploadFailed(t) ==
    \E i \in 1..Len(t.trace) :
        /\ t.trace[i].req.op = "upload"
        /\ (t.trace[i].resp.error # Null \/ t.trace[i].resp.thrown # Null)
\* the message of the failed upload of a create thunk (its first call)
UploadMessage(t) ==
    IF t.trace[1].resp.thrown # Null THEN t.trace[1].resp.thrown ELSE t.trace[1].resp.error

\* C8: createBlog / createComment with a file whose upload fails is rejected
\* with exactly the upload's message, never issues the row insert, and its
\* completion adds nothing to blogs or comments and leaves commentCounts alone.
C8_UploadFailureAborts ==
    [][(/\ Completes
        /\ result'.task.kind \in CreateKinds
        /\ result'.task.arg.file # NoFile
        /\ UploadFailed(result'.task)) =>
            /\ result'.meta.requestStatus = "rejected"
            /\ ~Issued(result'.task, "insert")
            /\ MessageOf(result') = UploadMessage(result'.task)
            /\ CollectionsUnchanged
            /\ backend'.posts = backend.posts
            /\ backend'.comments = backend.comments]_vars

\* createComment with a file on a post whose comments and count are cached:
\* the upload returns an error
C8_Witness ==
    /\ Settled("comments/createComment", "rejected")
    /\ result.task.arg.file = Png
    /\ result.payload = UploadErr
    /\ Len(result.task.trace) = 1
    /\ result.task.trace[1].req.op = "upload"
    /\ commentState.comments # <<>>

\* ---------------------------------------------------------------- C9
AuthKinds ==
    {"blogs/createBlog", "blogs/updateBlog", "comments/createComment",
     "comments/updateComment"}
AuthMessageOf(kind) == IF kind = "blogs/createBlog" THEN AuthMsgCreateBlog ELSE AuthMsg
NoIdentity(user) == user = NoUser \/ user.id = EmptyStr

\* C9: createBlog, updateBlog, createComment and updateComment dispatched with
\* no user, or a user whose id is empty, are rejected with the fixed message of
\* the thunk, issue no backend request, and change neither slice.
C9_UnauthenticatedRejected ==
    [][(/\ Completes
        /\ result'.task.kind \in AuthKinds
        /\ NoIdentity(result'.task.user)) =>
            /\ result'.meta.requestStatus = "rejected"
            /\ result'.payload = AuthMessageOf(result'.task.kind)
            /\ result'.task.trace = <<>>
            /\ backend' = backend
            /\ blogState' = blogState
            /\ commentState' = commentState]_vars

\* updateComment of a cached comment by a user with an empty id
C9_Witness ==
    /\ Settled("comments/updateComment", "rejected")
    /\ result.task.user = Anon
    /\ result.payload = AuthMsg
    /\ result.task.trace = <<>>
    /\ \E i \in 1..Len(commentState.comments) :
          commentState.comments[i].id = result.task.arg.id

\* ---------------------------------------------------------------- C10
\* C10: updateComment with shouldRemoveImage = true and a file takes the
\* removal branch: no upload is issued, the row update carries image_path =
\* null, and the payload and the cached comment of that id have no image path.
C10_RemovalWins ==
    (/\ Settled("comments/updateComment", "fulfilled")
     /\ result.task.arg.shouldRemoveImage
     /\ result.task.arg.file # NoFile) =>
        /\ ~Issued(result.task, "upload")
        /\ LastCall(result.task).req.op = "update"
        /\ LastCall(result.task).req.patch.image_path = Null
        /\ result.payload.image_path = Null
        /\ \A i \in 1..Len(commentState.comments) :
              commentState.comments[i].id = result.payload.id =>
                  commentState.comments[i].image_path = Null

\* the cached comment had an image, a file was supplied, the image is gone
C10_Witness ==
    /\ Settled("comments/updateComment", "fulfilled")
    /\ result.task.arg.shouldRemoveImage
    /\ result.task.arg.file = Png
    /\ result.task.arg.oldImagePath = Blob2
    /\ Blob2 \notin backend.files
    /\ \E i \in 1..Len(commentState.comments) :
          /\ commentState.comments[i].id = result.task.arg.id
          /\ commentState.comments[i].image_path = Null

\* ---------------------------------------------------------------- C11
\* a step in which the <kind>/fulfilled action of a thunk is reduced
Fulfils(kind) == Completes /\ result'.type = kind \o "/fulfilled"
\* a step in which the <kind>/rejected action of a thunk is reduced
Rejects(kind) == Completes /\ result'.type = kind \o "/rejected"

\* C11: when createBlog is fulfilled, blogs afterwards is the returned post
\* followed by the previous blogs in their previous order, whatever their
\* created_at.
C11_CreatedFirst ==
    [][Fulfils("blogs/createBlog") =>
          blogState.blogs' = <<result'.payload>> \o blogState.blogs]_vars

\* the new post is first although the entry after it was created later
C11_Witness ==
    /\ Settled("blogs/createBlog", "fulfilled")
    /\ Len(blogState.blogs) >= 2
    /\ blogState.blogs[1] = result.payload
    /\ blogState.blogs[2].created_at > blogState.blogs[1].created_at

\* ---------------------------------------------------------------- C12
\* the thunk's row update was accepted by the backend
RowAccepted(t) ==
    /\ t.trace # <<>>
    /\ LastCall(t).req.op = "update"
    /\ LastCall(t).resp.error = Null

\* C12: an updateBlog the backend accepts, for an id that is not in blogs, is
\* fulfilled and leaves blogs as it was.
C12_AbsentIdNoOp ==
    [][(/\ Completes
        /\ result'.task.kind = "blogs/updateBlog"
        /\ RowAccepted(result'.task)
        /\ FindIndex(blogState.blogs, result'.task.arg.id) = 0) =>
            /\ result'.meta.requestStatus = "fulfilled"
            /\ blogState.blogs' = blogState.blogs]_vars

\* blogs holds posts, the updated row is not among them
C12_Witness ==
    /\ Settled("blogs/updateBlog", "fulfilled")
    /\ result.payload.id = result.task.arg.id
    /\ blogState.blogs # <<>>
    /\ FindIndex(blogState.blogs, result.payload.id) = 0
    /\ \E b \in backend.posts : b = result.payload

\* ---------------------------------------------------------------- C13
\* C13: when updateBlog / updateComment is fulfilled for an id in the cache,
\* the collection afterwards is the previous one with the entry at that id's
\* index replaced by the returned row (same length, same ids in the same
\* order), and the rest of both slices, commentCounts included, is unchanged.
C13_ReplacedInPlace ==
    [][\A kind \in UpdateKinds :
          (Fulfils(kind) /\ FindIndex(Cached(kind), result'.payload.id) # 0) =>
              LET idx == FindIndex(Cached(kind), result'.payload.id)
              IN /\ Cached(kind)[idx].id = result'.task.arg.id
                 /\ IF kind = "blogs/updateBlog"
                    THEN /\ blogState' = [blogState EXCEPT !.blogs[idx] = result'.payload]
                         /\ commentState' = commentState
                    ELSE /\ commentState' =
                               [commentState EXCEPT !.comments[idx] = result'.payload]
                         /\ blogState' = blogState]_vars

\* the second of two cached comments was edited; the counts are known
C13_Witness ==
    /\ Settled("comments/updateComment", "fulfilled")
    /\ Len(commentState.comments) >= 2
    /\ commentState.comments[2] = result.payload
    /\ commentState.comments[2].content = Str("B")
    /\ commentState.comments[1].id # result.payload.id

\* ---------------------------------------------------------------- C14
\* s without its entries of the given id, the others in order
WithoutId(s, id) == LET Other(e) == e.id # id IN SelectSeq(s, Other)

\* C14: when deleteBlog(id) is fulfilled, blogs afterwards is the previous
\* blogs without the entries whose id equals id, the others kept in order
\* (an id that is a prefix of id is a different id): one element fewer when id
\* was present, the same elements when it was absent.
C14_RemovesTheOneMatching ==
    [][Fulfils("blogs/deleteBlog") =>
          LET id == result'.task.arg
          IN /\ blogState.blogs' = WithoutId(blogState.blogs, id)
             /\ Len(blogState.blogs') =
                   IF FindIndex(blogState.blogs, id) # 0
                   THEN Len(blogState.blogs) - 1
                   ELSE Len(blogState.blogs)]_vars

\* ---------------------------------------------------------------- C15
\* C15: when createComment is fulfilled for post P, comments afterwards is the
\* new comment followed by the previous comments, commentCounts[P] is its
\* previous value (0 when absent) plus 1, and every other entry of
\* commentCounts is as before.
C15_CreateCounts ==
    [][Fulfils("comments/createComment") =>
          LET P == result'.task.arg.postId
              before == commentState.commentCounts
              after == commentState.commentCounts'
          IN /\ result'.payload.post_id = P
             /\ commentState.comments' = <<result'.payload>> \o commentState.comments
             /\ DOMAIN after = DOMAIN before \cup {P}
             /\ after[P] = CountOr0(before, P) + 1
             /\ \A q \in DOMAIN before : q # P => after[q] = before[q]]_vars

\* the counts of two posts were fetched; the count of P went from 1 to 2
C15_Witness ==
    /\ Settled("comments/createComment", "fulfilled")
    /\ commentState.comments[1] = result.payload
    /\ \E q \in DOMAIN commentState.commentCounts : q # result.payload.post_id
    /\ hist.base[result.payload.post_id] = 1
    /\ commentState.commentCounts[result.payload.post_id] = 2

\* ---------------------------------------------------------------- C16
\* C16: every value in commentCounts is an integer >= 0, in every reachable
\* state, also after a delete of a comment whose post has count 0.
C16_CountsNonNegative ==
    \A p \in DOMAIN commentState.commentCounts :
        commentState.commentCounts[p] \in Nat

\* a cached comment was deleted while the count of its post was 0
C16_Witness ==
    \E p \in DOMAIN commentState.commentCounts :
        /\ hist.floored[p]
        /\ hist.removed[p] >= 1
        /\ commentState.commentCounts[p] = 0

\* ---------------------------------------------------------------- C17
\* a fetchCommentCounts thunk is dispatched
DispatchesCounts ==
    \E s \in Slots :
        /\ tasks[s] = Free
        /\ tasks'[s] # Free
        /\ tasks'[s].kind = "comments/fetchCommentCounts"

\* C17: fetchCommentCounts whose count query fails for one id is rejected with
\* that query's message, the failed query is the last one it issued, and
\* neither its dispatch nor its completion changes commentCounts: counts
\* obtained for earlier ids are not merged.
C17_AllOrNothing ==
    [][/\ DispatchesCounts => UNCHANGED commentState
       /\ (/\ Completes
           /\ result'.task.kind = "comments/fetchCommentCounts"
           /\ \E i \in 1..Len(result'.task.trace) :
                 result'.task.trace[i].resp.error # Null) =>
              LET t == result'.task
              IN /\ result'.meta.requestStatus = "rejected"
                 /\ result'.payload = LastCall(t).resp.error
                 /\ \A i \in 1..(Len(t.trace) - 1) : t.trace[i].resp.error = Null
                 /\ \A i \in 1..Len(t.trace) :
                       t.trace[i].req = CountByPost(t.arg[i])
                 /\ UNCHANGED commentState]_vars

\* counts were known; a batch of two got the first count and failed on the second
C17_Witness ==
    /\ Settled("comments/fetchCommentCounts", "rejected")
    /\ Len(result.task.arg) = 2
    /\ Len(result.task.trace) = 2
    /\ result.task.trace[1].resp.error = Null
    /\ result.payload = RowErr
    /\ DOMAIN commentState.commentCounts = {IdOf(1)}

\* ---------------------------------------------------------------- C18
\* a step that dispatches no thunk, serves none and completes none, and
\* changes the comment slice: dispatch(clearComments())
Clears ==
    /\ tasks' = tasks
    /\ nOps' = nOps
    /\ result' = result
    /\ commentState' # commentState

\* a fetchCommentsByPost thunk is dispatched (by the Comments effect)
DispatchesFetchComments ==
    \E s \in Slots :
        /\ tasks[s] = Free
        /\ tasks'[s] # Free
        /\ tasks'[s].kind = "comments/fetchCommentsByPost"

\* C18: clearComments, from any state, sets comments to the empty sequence,
\* status to idle and error to null and leaves commentCounts (and the post
\* slice) as it was; in the Comments effect, where the fetch's pending action
\* follows at once, comments is empty and commentCounts is as before.
C18_ClearKeepsCounts ==
    [][/\ Clears =>
            /\ commentState' =
                  [comments |-> <<>>, status |-> "idle", error |-> Null,
                   commentCounts |-> commentState.commentCounts]
            /\ blogState' = blogState
       /\ DispatchesFetchComments =>
            /\ commentState.comments' = <<>>
            /\ commentState.commentCounts' = commentState.commentCounts]_vars

\* cleared after the fetch of the viewed post had completed; counts are held
C18_Witness ==
    /\ viewed # Null
    /\ \A s \in Slots : tasks[s] = Free
    /\ result = Null
    /\ commentState.status = "idle"
    /\ commentState.comments = <<>>
    /\ commentState.error = Null
    /\ commentState.commentCounts # <<>>

\* ---------------------------------------------------------------- C19
FetchKinds == {"blogs/fetchBlogs", "comments/fetchCommentsByPost"}
StatusOf(kind) == IF kind \in BlogKinds THEN blogState.status ELSE commentState.status

\* C19: when fetchBlogs / fetchCommentsByPost is rejected, status of its slice
\* becomes failed, error becomes the message the backend returned, and blogs,
\* comments and commentCounts are what they were before the completion.
C19_FetchFailureKeepsEntries ==
    [][\A kind \in FetchKinds :
          Rejects(kind) =>
              /\ StatusOf(kind)' = "failed"
              /\ ErrorOf(kind)' = LastCall(result'.task).resp.error
              /\ ErrorOf(kind)' # Null
              /\ CollectionsUnchanged]_vars

\* the fetch of the viewed post failed while comments held entries
C19_Witness ==
    /\ Settled("comments/fetchCommentsByPost", "rejected")
    /\ commentState.status = "failed"
    /\ commentState.error = RowErr
    /\ commentState.comments # <<>>

\* ---------------------------------------------------------------- C20
\* a fetchBlogs thunk is dispatched
DispatchesFetchBlogs ==
    \E s \in Slots :
        /\ tasks[s] = Free
        /\ tasks'[s] # Free
        /\ tasks'[s].kind = "blogs/fetchBlogs"

\* C20: in both slices every fetch dispatch sets status to loading, and status
\* becomes succeeded or failed only from loading, for every interleaving of
\* fetch dispatches, fetch completions and clearComments.
C20_StatusMachine ==
    [][/\ DispatchesFetchBlogs => blogState.status' = "loading"
       /\ DispatchesFetchComments => commentState.status' = "loading"
       /\ (blogState.status' # blogState.status
             /\ blogState.status' \in {"succeeded", "failed"}) =>
                blogState.status = "loading"
       /\ (commentState.status' # commentState.status
             /\ commentState.status' \in {"succeeded", "failed"}) =>
                commentState.status = "loading"]_vars

\* ---------------------------------------------------------------- C21
\* C21: in every reachable state, a slice whose status is succeeded has error
\* null, for every interleaving of concurrent fetches of that slice.
C21_SucceededNoError ==
    /\ blogState.status = "succeeded" => blogState.error = Null
    /\ commentState.status = "succeeded" => commentState.error = Null

\* ---------------------------------------------------------------- C22
\* the thunks that are not list fetches
NonFetchKinds == MutationKinds \cup {"comments/fetchCommentCounts"}

\* a thunk of one of the given kinds is dispatched and awaits the backend
DispatchesOneOf(kinds) ==
    \E s \in Slots :
        /\ tasks[s] = Free
        /\ tasks'[s] # Free
        /\ tasks'[s].kind \in kinds
\* the fulfilled / rejected action of a thunk of one of the kinds is reduced
CompletesOneOf(kinds) == Completes /\ result'.task.kind \in kinds

\* C22: no dispatch and no completion, fulfilled or rejected, of createBlog,
\* updateBlog, deleteBlog, createComment, updateComment, deleteComment or
\* fetchCommentCounts changes the status of either slice.
C22_MutationsKeepStatus ==
    [][(DispatchesOneOf(NonFetchKinds) \/ CompletesOneOf(NonFetchKinds)) =>
          /\ blogState.status' = blogState.status
          /\ commentState.status' = commentState.status]_vars

\* a comment was created while the fetch of the post's comments is in flight
C22_Witness ==
    /\ Settled("comments/createComment", "fulfilled")
    /\ commentState.status = "loading"
    /\ commentState.comments # <<>>

\* ---------------------------------------------------------------- C23
\* an update by a signed-in user that replaces an image: a new file and a
\* non-empty oldImagePath (for a comment, without shouldRemoveImage)
ReplacesImage(t) ==
    /\ t.kind \in UpdateKinds
    /\ ~NoIdentity(t.user)
    /\ t.arg.file # NoFile
    /\ t.arg.oldImagePath \notin {Undefined, Null, EmptyStr}
    /\ t.kind = "comments/updateComment" => ~t.arg.shouldRemoveImage

Succeeded(call) == call.resp.error = Null /\ call.resp.thrown = Null
FailureOf(call) == IF call.resp.thrown # Null THEN call.resp.thrown ELSE call.resp.error

\* C23: updateBlog / updateComment with a new file and a non-empty oldImagePath
\* issue the removal of the old blob first and the upload only after the
\* removal has returned; when the upload fails the thunk is rejected with the
\* upload's message, no row update is issued, blogs / comments / commentCounts
\* are unchanged, and the old blob, if its removal succeeded, is gone.
C23_RemoveBeforeUpload ==
    [][/\ \A s \in Slots :
             (tasks'[s] # Free /\ ReplacesImage(tasks'[s])) =>
                 LET t == tasks'[s]
                 IN /\ t.trace = <<>> => t.req = Remove(t.arg.oldImagePath)
                    /\ (t.req # Null /\ t.req.op = "upload") =>
                          /\ Len(t.trace) = 1
                          /\ t.trace[1].req = Remove(t.arg.oldImagePath)
       /\ (/\ Completes
           /\ ReplacesImage(result'.task)
           /\ UploadFailed(result'.task)) =>
              LET t == result'.task
              IN /\ Len(t.trace) = 2
                 /\ t.trace[1].req = Remove(t.arg.oldImagePath)
                 /\ t.trace[2].req.op = "upload"
                 /\ result'.meta.requestStatus = "rejected"
                 /\ result'.payload = FailureOf(t.trace[2])
                 /\ ~Issued(t, "update")
                 /\ CollectionsUnchanged
                 /\ Succeeded(t.trace[1]) => t.arg.oldImagePath \notin backend'.files]_vars

\* the cached comment still carries the path of the blob that is gone
C23_Witness ==
    /\ Settled("comments/updateComment", "rejected")
    /\ ReplacesImage(result.task)
    /\ Len(result.task.trace) = 2
    /\ Succeeded(result.task.trace[1])
    /\ result.payload = UploadErr
    /\ result.task.arg.oldImagePath \notin backend.files
    /\ \E i \in 1..Len(commentState.comments) :
          /\ commentState.comments[i].id = result.task.arg.id
          /\ commentState.comments[i].image_path = result.task.arg.oldImagePath

\* ---------------------------------------------------------------- C24
\* the request that follows the best-effort removal of a thunk
AfterRemoval(t) ==
    IF t.kind = "comments/deleteComment" THEN "delete"
    ELSE IF t.kind = "comments/updateComment" /\ t.arg.shouldRemoveImage THEN "update"
    ELSE "upload"

\* C24: however the best-effort removal of updateBlog, updateComment or
\* deleteComment ends (done, error returned, promise rejected), the thunk goes
\* on to its next request (upload, row update, row delete), and it goes on
\* exactly as it does after a removal that succeeded.
C24_RemovalNeverAborts ==
    [][\A s \in Slots :
          (/\ tasks[s] # Free
           /\ tasks[s].req # Null
           /\ tasks[s].req.op = "remove"
           /\ tasks'[s] # Free
           /\ Len(tasks'[s].trace) = Len(tasks[s].trace) + 1) =>
              LET t == tasks'[s]
              IN /\ t.outcome = "pending"
                 /\ t.req # Null
                 /\ t.req.op = AfterRemoval(t)
                 /\ [Resume(tasks[s], Ok(Null), clock) EXCEPT !.trace = t.trace] = t]_vars

\* the removal's promise was rejected, the blob is still stored, and the
\* comment's row was deleted all the same
C24_Witness ==
    /\ Settled("comments/deleteComment", "fulfilled")
    /\ Len(result.task.trace) = 2
    /\ result.task.trace[1].req.op = "remove"
    /\ result.task.trace[1].resp.thrown # Null
    /\ result.task.arg.imagePath \in backend.files
    /\ \A c \in backend.comments : c.id # result.task.arg.id

\* ---------------------------------------------------------------- C25
\* the backend accepts the row update of task s in this step
RowUpdateServed(s) ==
    /\ tasks[s] # Free
    /\ tasks[s].pc = "row"
    /\ tasks[s].req.op = "update"
    /\ tasks'[s] # Free
    /\ Len(tasks'[s].trace) = Len(tasks[s].trace) + 1
    /\ LastCall(tasks'[s]).resp.error = Null

\* C25: updateComment with shouldRemoveImage false and no file leaves the image
\* path of the comment's row as it was before the update, whatever the
\* oldImagePath argument (omitted, null, or a path).
C25_ImagePathKept ==
    [][\A s \in Slots :
          (/\ RowUpdateServed(s)
           /\ tasks[s].kind = "comments/updateComment"
           /\ ~tasks[s].arg.shouldRemoveImage
           /\ tasks[s].arg.file = NoFile) =>
              \A before \in backend.comments, after \in backend'.comments :
                  (before.id = tasks[s].arg.id /\ after.id = tasks[s].arg.id) =>
                      after.image_path = before.image_path]_vars

\* ---------------------------------------------------------------- C26
\* C26: provided every backend call returns, every thunk in flight eventually
\* hands back exactly one final action, fulfilled or rejected; a payload
\* creator that throws ends as rejected.
C26_EveryThunkSettles ==
    /\ [](\A s \in Slots :
            (tasks[s] # Free /\ tasks[s].pc = "settled") =>
                tasks[s].outcome \in {"fulfilled", "rejected"})
    /\ \A n \in 1..MaxOps :
          (\E s \in Slots : tasks[s] # Free /\ tasks[s].requestId = n)
             ~> (/\ result # Null
                 /\ result.meta.requestId = n
                 /\ result.meta.requestStatus \in {"fulfilled", "rejected"}
                 /\ \A s \in Slots : tasks[s] = Free \/ tasks[s].requestId # n)

\* the upload's promise was rejected inside createBlog, which has no try / catch
C26_Witness ==
    /\ Settled("blogs/createBlog", "rejected")
    /\ result.payload = Undefined
    /\ result.error = ThrownErr
    /\ Len(result.task.trace) = 1

\* ---------------------------------------------------------------- C27
\* C27: when deleteComment is fulfilled for an id that is not in comments at
\* that moment, the comment state (comments and commentCounts included) is
\* left as it was.
C27_MissingIdNoEffect ==
    [][(/\ Fulfils("comments/deleteComment")
        /\ FindIndex(commentState.comments, result'.payload) = 0) =>
            UNCHANGED commentState]_vars

\* two deletes of a post's comments were fulfilled and only one of them found
\* its comment in the cache, which still holds another comment
C27_Witness ==
    /\ Settled("comments/deleteComment", "fulfilled")
    /\ \E p \in PostIds : hist.deleted[p] = 2 /\ hist.removed[p] = 1
    /\ FindIndex(commentState.comments, result.payload) = 0

\* ---------------------------------------------------------------- C28
\* C28: when fetchCommentCounts is fulfilled, commentCounts afterwards is the
\* returned mapping and nothing else: one entry per requested id, holding the
\* count its query returned; entries of other posts and the increments and
\* decrements made while the fetch was in flight are gone.
C28_CountsReplaced ==
    [][Fulfils("comments/fetchCommentCounts") =>
          LET postIds == result'.task.arg
              trace == result'.task.trace
              after == commentState.commentCounts'
          IN /\ after = result'.payload
             /\ DOMAIN after = Range(postIds)
             /\ Len(trace) = Len(postIds)
             /\ \A i \in 1..Len(postIds) :
                   /\ trace[i].req = CountByPost(postIds[i])
                   /\ after[postIds[i]] = trace[i].resp.data]_vars

\* nothing is in flight any more and a count fetched for the only requested
\* post, reduced last, is not the number of comments the post has: the
\* increment or decrement reduced before it is overwritten
C28_Witness ==
    /\ Settled("comments/fetchCommentCounts", "fulfilled")
    /\ \A s \in Slots : tasks[s] = Free
    /\ result.task.arg = <<IdOf(1)>>
    /\ commentState.commentCounts[IdOf(1)] #
          Cardinality({c \in backend.comments : c.post_id = IdOf(1)})

\* ---------------------------------------------------------------- C29
\* C29: once deleteBlog(id) has been fulfilled, blogs holds no entry with that
\* id, and the completion of a thunk that was dispatched before the delete
\* completed (an updateBlog of id, a fetchBlogs answered before the row was
\* deleted) does not bring one back.
C29_DeletedStaysGone ==
    [][/\ Fulfils("blogs/deleteBlog") =>
            FindIndex(blogState.blogs', result'.payload) = 0
       /\ \A id \in DOMAIN hist.gone :
             (/\ Completes
              /\ result'.meta.requestId <= hist.gone[id]
              /\ FindIndex(blogState.blogs, id) = 0) =>
                  FindIndex(blogState.blogs', id) = 0]_vars

\* ---------------------------------------------------------------- C30
CommentKinds ==
    {"comments/fetchCommentsByPost", "comments/fetchCommentCounts",
     "comments/createComment", "comments/updateComment", "comments/deleteComment"}

\* C30: no dispatch and no completion of fetchBlogs, createBlog, updateBlog or
\* deleteBlog changes the comment slice (comments, commentCounts, status,
\* error), and no comment thunk and no clearComments changes the post slice.
C30_SlicesIndependent ==
    [][/\ (DispatchesOneOf(BlogKinds) \/ CompletesOneOf(BlogKinds)) =>
             UNCHANGED commentState
       /\ (DispatchesOneOf(CommentKinds) \/ CompletesOneOf(CommentKinds) \/ Clears) =>
             UNCHANGED blogState]_vars

\* the post is deleted, in the cache and in the table, and the count fetched
\* for it is still held
C30_Witness ==
    /\ Settled("blogs/deleteBlog", "fulfilled")
    /\ \A p \in backend.posts : p.id # result.payload
    /\ FindIndex(blogState.blogs, result.payload) = 0
    /\ result.payload \in DOMAIN commentState.commentCounts
    /\ commentState.commentCounts[result.payload] = 1

\* ---------------------------------------------------------------- C31
\* no thunk is in flight and no final action is waiting for its caller
Quiescent == result = Null /\ \A s \in Slots : tasks[s] = Free

\* C31: whenever no operation is in flight, every entry of blogs whose id has
\* a row in the posts table equals that row, also after concurrent updateBlog
\* calls on one id whose completions arrive in another order than the one in
\* which the backend applied them (and no fetchBlogs, createBlog or deleteBlog
\* was in flight together with another post thunk).
C31_CacheMatchesRows ==
    (Quiescent /\ ~hist.mixed) =>
        \A i \in 1..Len(blogState.blogs) :
            \A row \in backend.posts :
                row.id = blogState.blogs[i].id => blogState.blogs[i] = row

====
